---- MODULE Spec2Model ----
(***************************************************************************)
(* A model of the axin attribute macro (GeminiLab/axin).                   *)
(*                                                                         *)
(* Generation time: the attribute's directive token stream is parsed       *)
(* (src/src/args.rs), folded into the four directive components and woven  *)
(* into a new function body (src/src/generator.rs) by the macro entry      *)
(* point (src/src/lib.rs).                                                 *)
(*                                                                         *)
(* Run time: the emitted function item is executed statement by statement, *)
(* with the hooks, the decorator and the original body as user code that   *)
(* may return or unwind.                                                   *)
(***************************************************************************)
EXTENDS Integers, Sequences, FiniteSets, TLC

\* Bounds of the model.
MaxDirectives == 3
MaxHooks == 3
MaxCalls == 2

------------------------------------------------------------------------------
\* args.rs: parameter names

PROLOGUE == "prologue"
ON_ENTER == "on_enter"
ON_EXIT == "on_exit"
DECORATOR == "decorator"
ALL_PARAMS == <<PROLOGUE, ON_ENTER, ON_EXIT, DECORATOR>>

------------------------------------------------------------------------------
\* args.rs: FunctionSpec

Simple(path) == [kind |-> "Simple", path |-> path, args |-> <<>>]
WithArgs(path, args) == [kind |-> "WithArgs", path |-> path, args |-> args]
NoSpec == [kind |-> "None", path |-> "", args |-> <<>>]

\* Option<FunctionSpec>
None == [some |-> FALSE, spec |-> NoSpec]
Some(spec) == [some |-> TRUE, spec |-> spec]

------------------------------------------------------------------------------
\* Tokens of an attribute argument list.  One item of a directive body that
\* is read as a function-spec: a path, optionally followed by a parenthesized
\* expression list, or something that is not a path at all (a literal).

PathTok(path) == [isPath |-> TRUE, path |-> path, paren |-> FALSE, args |-> <<>>]
CallTok(path, args) == [isPath |-> TRUE, path |-> path, paren |-> TRUE, args |-> args]
LitTok == [isPath |-> FALSE, path |-> "42", paren |-> FALSE, args |-> <<>>]

\* One statement of a prologue body: an expression with or without `;`, or
\* a brace-delimited macro invocation `m!{ .. }` with or without `;`.
StmtTok(ev, semi) == [ev |-> ev, semi |-> semi, mac |-> FALSE]
BraceMacroTok(ev, semi) == [ev |-> ev, semi |-> semi, mac |-> TRUE]

\* One directive `name(body)`.
SpecsDirective(name, specs) == [name |-> name, specs |-> specs, stmts |-> <<>>]
StmtsDirective(name, stmts) == [name |-> name, specs |-> <<>>, stmts |-> stmts]

------------------------------------------------------------------------------
\* Statements and expressions of a function body (syn::Stmt, as far as the
\* macro builds and the run time distinguishes them).

NoCall == [curried |-> FALSE, path |-> "", pargs |-> <<>>, args |-> <<>>]

\* `path(args)`
Call(path, args) == [curried |-> FALSE, path |-> path, pargs |-> <<>>, args |-> args]

\* `(path(pargs))(args)`
CurriedCall(path, pargs, args) == [curried |-> TRUE, path |-> path, pargs |-> pargs, args |-> args]

\* Stmt::Expr(expr, semi)
ExprStmt(ev, semi) ==
    [k |-> "Expr", ev |-> ev, semi |-> semi, call |-> NoCall,
     inputs |-> <<>>, output |-> "", inner |-> <<>>]

\* Stmt::Macro(StmtMacro { mac, semi_token })
MacroStmt(ev, semi) ==
    [k |-> "Macro", ev |-> ev, semi |-> semi, call |-> NoCall,
     inputs |-> <<>>, output |-> "", inner |-> <<>>]

\* `call;`
CallStmt(call) ==
    [k |-> "Call", ev |-> "", semi |-> TRUE, call |-> call,
     inputs |-> <<>>, output |-> "", inner |-> <<>>]

\* `let original_fn = |inputs| output { inner };`
LetOriginalFn(inputs, output, inner) ==
    [k |-> "LetOriginalFn", ev |-> "", semi |-> TRUE, call |-> NoCall,
     inputs |-> inputs, output |-> output, inner |-> inner]

\* `let __result = call;`
LetResult(call) ==
    [k |-> "LetResult", ev |-> "", semi |-> TRUE, call |-> call,
     inputs |-> <<>>, output |-> "", inner |-> <<>>]

\* `return __result;`
ReturnResult ==
    [k |-> "Return", ev |-> "", semi |-> TRUE, call |-> NoCall,
     inputs |-> <<>>, output |-> "", inner |-> <<>>]

------------------------------------------------------------------------------
\* args.rs: errors (syn::Error with the message the code formats)

NoError == [kind |-> "None", name |-> "", supported |-> <<>>]
\* "The '{}' parameter requires at least one function."
EmptyHookList(name) == [kind |-> "EmptyHookList", name |-> name, supported |-> <<>>]
\* UnknownDirective with a list of supported names that leaves one out
UnknownDirectiveShortList(name) ==
    [kind |-> "UnknownDirective", name |-> name, supported |-> <<PROLOGUE, ON_ENTER, ON_EXIT>>]
\* "Unsupported parameter: '{}'. Supported parameters are: {}"
UnknownDirective(name) == [kind |-> "UnknownDirective", name |-> name, supported |-> ALL_PARAMS]
\* a body item that does not parse as a path
MalformedFunctionSpec(name) == [kind |-> "MalformedFunctionSpec", name |-> name, supported |-> <<>>]
\* a prologue body the statement parser rejects
StmtParseError(name) == [kind |-> "StmtParseError", name |-> name, supported |-> <<>>]
\* tokens left in a parenthesized body: reported when the whole parse ends
UnexpectedToken == [kind |-> "UnexpectedToken", name |-> "", supported |-> <<>>]

------------------------------------------------------------------------------
\* args.rs: parsing

\* impl Parse for FunctionSpec
FunctionSpecParse(tok) ==
    IF ~tok.isPath
    THEN [ok |-> FALSE, spec |-> NoSpec]
    ELSE IF tok.paren
         THEN [ok |-> TRUE, spec |-> WithArgs(tok.path, tok.args)]
         ELSE [ok |-> TRUE, spec |-> Simple(tok.path)]

\* impl Parse for FunctionSpecList: Punctuated::parse_terminated, which stops
\* at the first item that fails.
RECURSIVE FunctionSpecListFrom(_, _, _)
FunctionSpecListFrom(toks, i, acc) ==
    IF i > Len(toks)
    THEN [ok |-> TRUE, list |-> acc]
    ELSE LET r == FunctionSpecParse(toks[i])
         IN IF ~r.ok
            THEN [ok |-> FALSE, list |-> acc]
            ELSE FunctionSpecListFrom(toks, i + 1, Append(acc, r.spec))

FunctionSpecListParse(toks) == FunctionSpecListFrom(toks, 1, <<>>)

\* Block::parse_within on the prologue body: only the last statement may be
\* an expression without `;`.  A macro invocation with braces at the start
\* of a statement is a Stmt::Macro, whose `;` is optional anywhere.
ParseWithin(stmts) ==
    IF \E i \in 1..Len(stmts) : i < Len(stmts) /\ ~stmts[i].semi /\ ~stmts[i].mac
    THEN [ok |-> FALSE, stmts |-> <<>>]
    ELSE [ok |-> TRUE,
          stmts |-> [i \in 1..Len(stmts) |->
                        IF stmts[i].mac THEN MacroStmt(stmts[i].ev, stmts[i].semi)
                        ELSE ExprStmt(stmts[i].ev, stmts[i].semi)]]

\* enum AxinArg
NoArg == [tag |-> "None", stmts |-> <<>>, funcs |-> <<>>]
Prologue(stmts) == [tag |-> "Prologue", stmts |-> stmts, funcs |-> <<>>]
OnEnter(funcs) == [tag |-> "OnEnter", stmts |-> <<>>, funcs |-> funcs]
OnExit(funcs) == [tag |-> "OnExit", stmts |-> <<>>, funcs |-> funcs]
Decorator(func) == [tag |-> "Decorator", stmts |-> <<>>, funcs |-> <<func>>]

ArgOk(arg, unexpected) == [ok |-> TRUE, arg |-> arg, err |-> NoError, unexpected |-> unexpected]
ArgErr(err) == [ok |-> FALSE, arg |-> NoArg, err |-> err, unexpected |-> FALSE]

\* AxinArgParse without the check for an empty hook list
AxinArgParseAllowEmpty(tok) ==
    IF tok.name = PROLOGUE
    THEN LET r == ParseWithin(tok.stmts)
         IN IF r.ok THEN ArgOk(Prologue(r.stmts), FALSE)
                    ELSE ArgErr(StmtParseError(tok.name))
    ELSE IF tok.name \in {ON_ENTER, ON_EXIT}
    THEN LET funcs == FunctionSpecListParse(tok.specs)
         IN IF ~funcs.ok THEN ArgErr(MalformedFunctionSpec(tok.name))
            ELSE IF tok.name = ON_ENTER THEN ArgOk(OnEnter(funcs.list), FALSE)
            ELSE ArgOk(OnExit(funcs.list), FALSE)
    ELSE IF tok.name = DECORATOR
    THEN IF tok.specs = <<>> THEN ArgErr(MalformedFunctionSpec(tok.name))
         ELSE LET r == FunctionSpecParse(tok.specs[1])
              IN IF ~r.ok THEN ArgErr(MalformedFunctionSpec(tok.name))
                 ELSE ArgOk(Decorator(r.spec), Len(tok.specs) > 1)
    ELSE ArgErr(UnknownDirective(tok.name))

\* impl Parse for AxinArg.  `unexpected` records that the parenthesized body
\* was left with unread tokens.
AxinArgParse(tok) ==
    IF tok.name = PROLOGUE
    THEN LET r == ParseWithin(tok.stmts)
         IN IF r.ok THEN ArgOk(Prologue(r.stmts), FALSE)
                    ELSE ArgErr(StmtParseError(tok.name))
    ELSE IF tok.name \in {ON_ENTER, ON_EXIT}
    THEN LET funcs == FunctionSpecListParse(tok.specs)
         IN IF ~funcs.ok THEN ArgErr(MalformedFunctionSpec(tok.name))
            ELSE IF funcs.list = <<>> THEN ArgErr(EmptyHookList(tok.name))
            ELSE IF tok.name = ON_ENTER THEN ArgOk(OnEnter(funcs.list), FALSE)
            ELSE ArgOk(OnExit(funcs.list), FALSE)
    ELSE IF tok.name = DECORATOR
    THEN IF tok.specs = <<>> THEN ArgErr(MalformedFunctionSpec(tok.name))
         ELSE LET r == FunctionSpecParse(tok.specs[1])
              IN IF ~r.ok THEN ArgErr(MalformedFunctionSpec(tok.name))
                 ELSE ArgOk(Decorator(r.spec), Len(tok.specs) > 1)
    ELSE ArgErr(UnknownDirective(tok.name))

\* AxinArgsFrom that skips a directive that fails to parse
RECURSIVE AxinArgsFromSkip(_, _, _, _)
AxinArgsFromSkip(tokens, i, acc, unexpected) ==
    IF i > Len(tokens)
    THEN [ok |-> TRUE, args |-> acc, err |-> NoError, unexpected |-> unexpected, parsed |-> Len(acc)]
    ELSE LET r == AxinArgParse(tokens[i])
         IN IF ~r.ok
            THEN AxinArgsFromSkip(tokens, i + 1, acc, unexpected)
            ELSE AxinArgsFromSkip(tokens, i + 1, Append(acc, r.arg), unexpected \/ r.unexpected)

\* impl Parse for AxinArgs: Punctuated::parse_terminated over the directives.
RECURSIVE AxinArgsFrom(_, _, _, _)
AxinArgsFrom(tokens, i, acc, unexpected) ==
    IF i > Len(tokens)
    THEN [ok |-> TRUE, args |-> acc, err |-> NoError, unexpected |-> unexpected, parsed |-> Len(acc)]
    ELSE LET r == AxinArgParse(tokens[i])
         IN IF ~r.ok
            THEN [ok |-> FALSE, args |-> <<>>, err |-> r.err, unexpected |-> unexpected, parsed |-> Len(acc)]
            ELSE AxinArgsFrom(tokens, i + 1, Append(acc, r.arg), unexpected \/ r.unexpected)

AxinArgsParse(tokens) == AxinArgsFrom(tokens, 1, <<>>, FALSE)

\* SynParse without the check for unread tokens
SynParseIgnoresLeftover(tokens) == AxinArgsParse(tokens)

\* syn::parse::<AxinArgs>(args): the parse, then the check for unread tokens.
SynParse(tokens) ==
    LET r == AxinArgsParse(tokens)
    IN IF ~r.ok THEN r
       ELSE IF r.unexpected
            THEN [ok |-> FALSE, args |-> <<>>, err |-> UnexpectedToken, unexpected |-> TRUE, parsed |-> r.parsed]
            ELSE r

------------------------------------------------------------------------------
\* generator.rs: process_attribute_args

NoComponents ==
    [prologue_stmts |-> <<>>, decorator_fn |-> None,
     on_enter_funcs |-> <<>>, on_exit_funcs |-> <<>>]

\* PushPrologueStmt that pushes every statement as it is
PushPrologueStmtAsIs(prologue_stmts, stmt) == Append(prologue_stmts, stmt)

\* the prologue arm: Stmt::Expr(expr, None) becomes Stmt::Expr(expr, Some(;))
PushPrologueStmt(prologue_stmts, stmt) ==
    IF stmt.k = "Expr" /\ ~stmt.semi
    THEN Append(prologue_stmts, [stmt EXCEPT !.semi = TRUE])
    ELSE Append(prologue_stmts, stmt)

RECURSIVE PushPrologue(_, _, _)
PushPrologue(prologue_stmts, stmts, i) ==
    IF i > Len(stmts) THEN prologue_stmts
    ELSE PushPrologue(PushPrologueStmt(prologue_stmts, stmts[i]), stmts, i + 1)

\* ProcessArg with a later on_enter group put in front of the earlier ones
ProcessArgPrepend(acc, arg) ==
    IF arg.tag = "Prologue"
    THEN [acc EXCEPT !.prologue_stmts = PushPrologue(@, arg.stmts, 1)]
    ELSE IF arg.tag = "OnEnter"
    THEN [acc EXCEPT !.on_enter_funcs = arg.funcs \o @]
    ELSE IF arg.tag = "OnExit"
    THEN [acc EXCEPT !.on_exit_funcs = @ \o arg.funcs]
    ELSE [acc EXCEPT !.decorator_fn = Some(arg.funcs[1])]

\* ProcessArg that keeps the first decorator and ignores later ones
ProcessArgKeepFirstDecorator(acc, arg) ==
    IF arg.tag = "Prologue"
    THEN [acc EXCEPT !.prologue_stmts = PushPrologue(@, arg.stmts, 1)]
    ELSE IF arg.tag = "OnEnter"
    THEN [acc EXCEPT !.on_enter_funcs = @ \o arg.funcs]
    ELSE IF arg.tag = "OnExit"
    THEN [acc EXCEPT !.on_exit_funcs = @ \o arg.funcs]
    ELSE IF acc.decorator_fn.some THEN acc
    ELSE [acc EXCEPT !.decorator_fn = Some(arg.funcs[1])]

\* ProcessArg in which a prologue directive replaces the statements of the
\* earlier ones
ProcessArgPrologueLastWrite(acc, arg) ==
    IF arg.tag = "Prologue"
    THEN [acc EXCEPT !.prologue_stmts = PushPrologue(<<>>, arg.stmts, 1)]
    ELSE IF arg.tag = "OnEnter"
    THEN [acc EXCEPT !.on_enter_funcs = @ \o arg.funcs]
    ELSE IF arg.tag = "OnExit"
    THEN [acc EXCEPT !.on_exit_funcs = @ \o arg.funcs]
    ELSE [acc EXCEPT !.decorator_fn = Some(arg.funcs[1])]

\* one iteration of the loop over attribute_args.args
ProcessArg(acc, arg) ==
    IF arg.tag = "Prologue"
    THEN [acc EXCEPT !.prologue_stmts = PushPrologue(@, arg.stmts, 1)]
    ELSE IF arg.tag = "OnEnter"
    THEN [acc EXCEPT !.on_enter_funcs = @ \o arg.funcs]
    ELSE IF arg.tag = "OnExit"
    THEN [acc EXCEPT !.on_exit_funcs = @ \o arg.funcs]
    ELSE [acc EXCEPT !.decorator_fn = Some(arg.funcs[1])]

RECURSIVE ProcessFrom(_, _, _)
ProcessFrom(args, i, acc) ==
    IF i > Len(args) THEN acc
    ELSE ProcessFrom(args, i + 1, ProcessArg(acc, args[i]))

process_attribute_args(attribute_args) == ProcessFrom(attribute_args, 1, NoComponents)

------------------------------------------------------------------------------
\* generator.rs: generate_enhanced_function

\* ForwardArgs collecting the identifiers in reverse order
RECURSIVE ForwardArgsReversed(_)
ForwardArgsReversed(fn_inputs) ==
    IF fn_inputs = <<>> THEN <<>>
    ELSE IF Head(fn_inputs).pat = "Ident"
         THEN ForwardArgsReversed(Tail(fn_inputs)) \o <<Head(fn_inputs).name>>
         ELSE ForwardArgsReversed(Tail(fn_inputs))

\* ForwardArgs that forwards a name for every parameter, whatever its pattern
ForwardArgsAll(fn_inputs) == [i \in 1..Len(fn_inputs) |-> fn_inputs[i].name]

\* the filter_map over fn_inputs: the identifiers of FnArg::Typed / Pat::Ident
RECURSIVE ForwardArgs(_)
ForwardArgs(fn_inputs) ==
    IF fn_inputs = <<>> THEN <<>>
    ELSE IF Head(fn_inputs).pat = "Ident"
         THEN <<Head(fn_inputs).name>> \o ForwardArgs(Tail(fn_inputs))
         ELSE ForwardArgs(Tail(fn_inputs))

generate_function_call(func_spec) ==
    IF func_spec.kind = "Simple"
    THEN Call(func_spec.path, <<>>)
    ELSE Call(func_spec.path, func_spec.args)

\* generate_decorator_call that does not pass the core callable
generate_decorator_call_without_core(func_spec, orig_args) ==
    IF func_spec.kind = "Simple"
    THEN Call(func_spec.path, orig_args)
    ELSE CurriedCall(func_spec.path, func_spec.args, orig_args)

\* generate_decorator_call that calls a parameterized decorator like a simple one
generate_decorator_call_uncurried(func_spec, orig_args) ==
    Call(func_spec.path, <<"original_fn">> \o orig_args)

generate_decorator_call(func_spec, orig_args) ==
    IF func_spec.kind = "Simple"
    THEN Call(func_spec.path, <<"original_fn">> \o orig_args)
    ELSE CurriedCall(func_spec.path, func_spec.args, <<"original_fn">> \o orig_args)

\* HookCalls that emits a hook only once however often it is listed
RECURSIVE HookCallsOnce(_, _)
HookCallsOnce(funcs, seen) ==
    IF funcs = <<>> THEN <<>>
    ELSE IF Head(funcs) \in seen
         THEN HookCallsOnce(Tail(funcs), seen)
         ELSE <<CallStmt(generate_function_call(Head(funcs)))>>
                  \o HookCallsOnce(Tail(funcs), seen \cup {Head(funcs)})

HookCallsSet(funcs) == HookCallsOnce(funcs, {})

RECURSIVE HookCalls(_)
HookCalls(funcs) ==
    IF funcs = <<>> THEN <<>>
    ELSE <<CallStmt(generate_function_call(Head(funcs)))>> \o HookCalls(Tail(funcs))

\* `let __result = ...;`
ResultStmt(decorator_fn, args) ==
    IF decorator_fn.some
    THEN LetResult(generate_decorator_call(decorator_fn.spec, args))
    ELSE LetResult(Call("original_fn", args))

\* FinalStmts with the entry hooks emitted after the call
FinalStmtsEntryLate(on_enter_funcs, core, result_stmt, on_exit_funcs) ==
    <<core>> \o <<result_stmt>> \o HookCalls(on_enter_funcs)
        \o HookCalls(on_exit_funcs) \o <<ReturnResult>>

\* FinalStmts with the exit hooks emitted before the call
FinalStmtsExitEarly(on_enter_funcs, core, result_stmt, on_exit_funcs) ==
    HookCalls(on_enter_funcs) \o <<core>> \o HookCalls(on_exit_funcs)
        \o <<result_stmt>> \o <<ReturnResult>>

FinalStmts(on_enter_funcs, core, result_stmt, on_exit_funcs) ==
    HookCalls(on_enter_funcs) \o <<core>> \o <<result_stmt>>
        \o HookCalls(on_exit_funcs) \o <<ReturnResult>>

\* generate_enhanced_function that puts the prologue and the original body
\* in the emitted body itself instead of in a closure
generate_enhanced_function_inline(input_fn, prologue_stmts, decorator_fn, on_enter_funcs, on_exit_funcs) ==
    [attrs |-> <<>>, vis |-> input_fn.vis, sig |-> input_fn.sig,
     block |-> HookCalls(on_enter_funcs) \o prologue_stmts \o input_fn.block
                   \o HookCalls(on_exit_funcs)]

\* generate_enhanced_function whose closure takes the forwarded parameters only
RECURSIVE IdentInputs(_)
IdentInputs(fn_inputs) ==
    IF fn_inputs = <<>> THEN <<>>
    ELSE IF Head(fn_inputs).pat = "Ident"
         THEN <<Head(fn_inputs)>> \o IdentInputs(Tail(fn_inputs))
         ELSE IdentInputs(Tail(fn_inputs))

generate_enhanced_function_ident_closure(input_fn, prologue_stmts, decorator_fn, on_enter_funcs, on_exit_funcs) ==
    LET args == ForwardArgs(input_fn.sig.inputs)
        inner_stmts == prologue_stmts \o input_fn.block
        core == LetOriginalFn(IdentInputs(input_fn.sig.inputs), input_fn.sig.output, inner_stmts)
        final_stmts == FinalStmts(on_enter_funcs, core, ResultStmt(decorator_fn, args), on_exit_funcs)
    IN  [attrs |-> <<>>, vis |-> input_fn.vis, sig |-> input_fn.sig, block |-> final_stmts]

generate_enhanced_function(input_fn, prologue_stmts, decorator_fn, on_enter_funcs, on_exit_funcs) ==
    LET args == ForwardArgs(input_fn.sig.inputs)
        inner_stmts == prologue_stmts \o input_fn.block
        core == LetOriginalFn(input_fn.sig.inputs, input_fn.sig.output, inner_stmts)
        final_stmts == FinalStmts(on_enter_funcs, core, ResultStmt(decorator_fn, args), on_exit_funcs)
    IN  \* quote! { #fn_vis #fn_sig #final_block }
        [attrs |-> <<>>, vis |-> input_fn.vis, sig |-> input_fn.sig, block |-> final_stmts]

------------------------------------------------------------------------------
\* lib.rs: the macro entry point

NoItem == [attrs |-> <<>>, vis |-> "", sig |-> [ident |-> "", inputs |-> <<>>, output |-> ""], block |-> <<>>]

\* what the macro hands back to the compiler
CompileError(err) == [kind |-> "compile_error", err |-> err, item |-> NoItem]
Item(item) == [kind |-> "item", err |-> NoError, item |-> item]
NoOutput == [kind |-> "none", err |-> NoError, item |-> NoItem]

\* axin that emits the woven function without its visibility
axinDropsVisibility(args, input_fn) ==
    IF args # <<>>
    THEN LET attribute_args == SynParse(args)
         IN IF ~attribute_args.ok
            THEN CompileError(attribute_args.err)
            ELSE LET c == process_attribute_args(attribute_args.args)
                     item == generate_enhanced_function(input_fn, c.prologue_stmts,
                                 c.decorator_fn, c.on_enter_funcs, c.on_exit_funcs)
                 IN Item([item EXCEPT !.vis = ""])
    ELSE Item(input_fn)

\* axin without the fast path for an empty attribute
axinAlwaysWeaves(args, input_fn) ==
    LET attribute_args == SynParse(args)
    IN IF ~attribute_args.ok
       THEN CompileError(attribute_args.err)
       ELSE LET c == process_attribute_args(attribute_args.args)
            IN Item(generate_enhanced_function(input_fn, c.prologue_stmts,
                       c.decorator_fn, c.on_enter_funcs, c.on_exit_funcs))

axin(args, input_fn) ==
    IF args # <<>>
    THEN LET attribute_args == SynParse(args)
         IN IF ~attribute_args.ok
            THEN CompileError(attribute_args.err)
            ELSE LET c == process_attribute_args(attribute_args.args)
                 IN Item(generate_enhanced_function(input_fn, c.prologue_stmts,
                            c.decorator_fn, c.on_enter_funcs, c.on_exit_funcs))
    ELSE Item(input_fn)

------------------------------------------------------------------------------
\* Run-time values

\* an argument value: an integer, or the core callable
IntVal(n) == [isFn |-> FALSE, v |-> n]
FnVal == [isFn |-> TRUE, v |-> 0]

\* a function result: `()`, what the original body computes from the
\* arguments it was given, or a value the decorator made up itself
NoValue == [tag |-> "none", of |-> <<>>]
Unit == [tag |-> "unit", of |-> <<>>]
Ret(vals) == [tag |-> "ret", of |-> vals]
DecVal == [tag |-> "dec", of |-> <<>>]
MacVal == [tag |-> "mac", of |-> <<>>]

\* the value of a statement as the last statement of a block: a tail
\* expression (no `;`) gives the block its value, anything else gives `()`.
\* The expression "ret" is the original function's result expression.
StmtValue(stmt, vals) ==
    IF stmt.k = "Expr" /\ ~stmt.semi
    THEN (IF stmt.ev = "ret" THEN Ret(vals) ELSE Unit)
    ELSE IF stmt.k = "Macro" /\ ~stmt.semi
    THEN MacVal
    ELSE Unit

\* the expression "return" is `return ret`: it ends the function or closure
\* whose block it is in, with the original function's result expression as
\* the value
IsReturn(stmt) == stmt.k = "Expr" /\ stmt.ev = "return"

\* events of the execution trace
Event(op, path, args) == [op |-> op, path |-> path, args |-> args]

------------------------------------------------------------------------------
\* Inputs

Vals == {1, 2}

\* the argument values of one invocation: a different value per parameter
ArgVals(n) == {vals \in [1..n -> Vals] : \A i, j \in 1..n : vals[i] = vals[j] => i = j}

Param(name) == [pat |-> "Ident", name |-> name]

\* fn f0() { X; }
F0 == [attrs |-> <<>>, vis |-> "", sig |-> [ident |-> "f0", inputs |-> <<>>, output |-> "unit"],
       block |-> <<ExprStmt("X", TRUE)>>]
\* fn f1(n: i32) -> i32 { X; ret }
F1 == [attrs |-> <<>>, vis |-> "pub", sig |-> [ident |-> "f1", inputs |-> <<Param("n")>>, output |-> "i32"],
       block |-> <<ExprStmt("X", TRUE), ExprStmt("ret", FALSE)>>]
\* fn f2(n: i32, m: i32) -> i32 { X; ret }
F2 == [attrs |-> <<>>, vis |-> "", sig |-> [ident |-> "f2", inputs |-> <<Param("n"), Param("m")>>, output |-> "i32"],
       block |-> <<ExprStmt("X", TRUE), ExprStmt("ret", FALSE)>>]

\* fn f3(n: i32, (a, b): (i32, i32)) -> i32 { X; ret }
F3 == [attrs |-> <<>>, vis |-> "", sig |-> [ident |-> "f3", inputs |-> <<Param("n"), [pat |-> "Tuple", name |-> ""]>>, output |-> "i32"],
       block |-> <<ExprStmt("X", TRUE), ExprStmt("ret", FALSE)>>]

FnDecls == {F0, F1, F2, F3}

\* #[inline] pub fn f4(_: i32, n: i32, (a, b): (i32, i32), m: i32) -> i32 { X; ret }
F4 == [attrs |-> <<"inline">>, vis |-> "pub",
       sig |-> [ident |-> "f4",
                inputs |-> <<[pat |-> "Wild", name |-> "_"], Param("n"),
                             [pat |-> "Tuple", name |-> ""], Param("m")>>,
                output |-> "i32"],
       block |-> <<ExprStmt("X", TRUE), ExprStmt("ret", FALSE)>>]
\* fn f5(&self, n: i32) { X; }
F5 == [attrs |-> <<>>, vis |-> "",
       sig |-> [ident |-> "f5", inputs |-> <<[pat |-> "Receiver", name |-> "self"], Param("n")>>,
                output |-> "unit"],
       block |-> <<ExprStmt("X", TRUE)>>]
\* fn f6() { }
F6 == [attrs |-> <<>>, vis |-> "", sig |-> [ident |-> "f6", inputs |-> <<>>, output |-> "unit"],
       block |-> <<>>]

HookToks == {PathTok("A"), CallTok("B", <<"x">>)}
HookBodies == UNION {[1..n -> HookToks] : n \in 0..MaxHooks}

\* attributes for the run-time specification: one on_enter group, the
\* prologue, the decorator, then one on_exit group per exit hook, with at
\* most MaxHooks hooks in all
RECURSIVE ExitGroups(_)
ExitGroups(x) ==
    IF x = <<>> THEN <<>>
    ELSE <<SpecsDirective(ON_EXIT, <<Head(x)>>)>> \o ExitGroups(Tail(x))

PrologueChoices ==
    {<<>>, <<StmtsDirective(PROLOGUE, <<StmtTok("P", TRUE), StmtTok("Q", FALSE)>>)>>}

DecoratorChoices ==
    {<<>>,
     <<SpecsDirective(DECORATOR, <<PathTok("D")>>)>>,
     <<SpecsDirective(DECORATOR, <<CallTok("D", <<"x">>)>>)>>}

Compose(e, p, d, x) ==
    (IF e = <<>> THEN <<>> ELSE <<SpecsDirective(ON_ENTER, e)>>) \o p \o d \o ExitGroups(x)

HookPairs == {h \in HookBodies \X HookBodies : Len(h[1]) + Len(h[2]) <= MaxHooks}

RunAttrs ==
    {Compose(h[1], p, d, h[2]) : h \in HookPairs, p \in PrologueChoices, d \in DecoratorChoices}

\* attributes for the generation-time specification: any list of directives
GenDirectives ==
    {SpecsDirective(ON_ENTER, <<>>),
     SpecsDirective(ON_ENTER, <<PathTok("A")>>),
     SpecsDirective(ON_ENTER, <<CallTok("B", <<"x">>), PathTok("A")>>),
     SpecsDirective(ON_ENTER, <<PathTok("A"), LitTok>>),
     SpecsDirective(ON_EXIT, <<>>),
     SpecsDirective(ON_EXIT, <<PathTok("B")>>),
     SpecsDirective(ON_EXIT, <<PathTok("A"), PathTok("A")>>),
     StmtsDirective(PROLOGUE, <<>>),
     StmtsDirective(PROLOGUE, <<StmtTok("P", FALSE)>>),
     StmtsDirective(PROLOGUE, <<StmtTok("P", FALSE), StmtTok("Q", TRUE)>>),
     SpecsDirective(DECORATOR, <<>>),
     SpecsDirective(DECORATOR, <<PathTok("D")>>),
     SpecsDirective(DECORATOR, <<CallTok("D", <<"x">>)>>),
     SpecsDirective(DECORATOR, <<PathTok("D"), PathTok("E")>>),
     SpecsDirective("foo", <<PathTok("bar")>>),
     SpecsDirective("on_entry", <<PathTok("A")>>),
     StmtsDirective(PROLOGUE, <<StmtTok("Q", TRUE)>>),
     StmtsDirective(PROLOGUE, <<BraceMacroTok("M", FALSE)>>)}

GenAttrs == UNION {[1..n -> GenDirectives] : n \in 0..MaxDirectives}

GenFns == {F0, F2, F4, F5, F6}

\* fn f7(original_fn: i32) -> i32 { X; ret }
F7 == [attrs |-> <<>>, vis |-> "", sig |-> [ident |-> "f7", inputs |-> <<Param("original_fn")>>, output |-> "i32"],
       block |-> <<ExprStmt("X", TRUE), ExprStmt("ret", FALSE)>>]
\* fn f8(n: i32) -> i32 { X; return ret; Y; }
F8 == [attrs |-> <<>>, vis |-> "", sig |-> [ident |-> "f8", inputs |-> <<Param("n")>>, output |-> "i32"],
       block |-> <<ExprStmt("X", TRUE), ExprStmt("return", TRUE), ExprStmt("Y", TRUE)>>]

\* functions and attributes for the corner cases of the run time: a
\* parameter named like a local of the emitted body, and an early return in
\* the body or in the prologue
EdgeFns == {F1, F7, F8}

EdgePrologues ==
    PrologueChoices \cup {<<StmtsDirective(PROLOGUE, <<StmtTok("P", TRUE), StmtTok("return", FALSE)>>)>>}

EdgeAttrs ==
    {Compose(e, p, d, x) :
        e \in {<<>>, <<PathTok("A")>>},
        p \in EdgePrologues,
        d \in DecoratorChoices,
        x \in {<<>>, <<PathTok("B")>>, <<PathTok("A"), PathTok("B")>>}}

------------------------------------------------------------------------------
\* State

VARIABLES
    tokens,         \* the attribute's argument token stream
    input_fn,       \* the annotated function
    output,         \* what the macro emitted
    pc,             \* "unexpanded": the macro has not run; "rejected": it
                    \* gave a compile error; "idle": between invocations;
                    \* "body", "apply", "dec_before", "core", "dec_after":
                    \* where the running invocation is; "aborted": it unwound
    calls,          \* invocations started
    completed,      \* invocations that returned
    ip,             \* the statement of the emitted body that runs next
    cip,            \* the statement of the core callable that runs next
    env,            \* the caller's argument values, one per parameter
    original_fn,    \* the local `original_fn` once its let has run
    caller,         \* who called the core: "woven" or "decorator"
    coreArgs,       \* the argument values the core was called with
    decFn,          \* whether the decorator's first argument is the core callable
    decArgs,        \* the argument values the decorator got after the first
    coreRet,        \* what the core returned to the decorator
    decRet,         \* what the decorator returned
    last,           \* the value of the last statement of the running block
    result,         \* the local `__result`
    returned,       \* what the invocation returned to its caller
    trace,          \* the events of the current invocation
    hookCount,      \* per statement of the emitted body: times its call ran
    producerEvals,  \* evaluations of the curried decorator's producer
    decoratorCalls, \* invocations of the decorator
    coreEntered,    \* entries of the core callable
    wrapper,        \* the invocation in which the current decorator callable was made
    applied         \* the `wrapper` the decorator call of this invocation used

genVars == <<tokens, input_fn, output>>
frameVars == <<ip, cip, env, original_fn, caller, coreArgs, decFn, decArgs, coreRet, decRet,
               last, result, returned, trace, wrapper, applied>>
countVars == <<calls, completed, hookCount, producerEvals, decoratorCalls, coreEntered>>
vars == <<genVars, pc, frameVars, countVars>>

NoClosure == LetOriginalFn(<<>>, "", <<>>)

InitRest ==
    /\ output = NoOutput
    /\ pc = "unexpanded"
    /\ calls = 0 /\ completed = 0
    /\ ip = 0 /\ cip = 0
    /\ env = <<>>
    /\ original_fn = [bound |-> FALSE, fn |-> NoClosure]
    /\ caller = ""
    /\ coreArgs = <<>>
    /\ decFn = FALSE /\ decArgs = <<>>
    /\ coreRet = NoValue /\ decRet = NoValue
    /\ last = Unit /\ result = NoValue /\ returned = NoValue
    /\ trace = <<>>
    /\ hookCount = <<>>
    /\ producerEvals = 0 /\ decoratorCalls = 0 /\ coreEntered = 0
    /\ wrapper = 0 /\ applied = 0

Init == tokens \in RunAttrs /\ input_fn \in FnDecls /\ InitRest

InitGen == tokens \in GenAttrs /\ input_fn \in GenFns /\ InitRest

InitEdge == tokens \in EdgeAttrs /\ input_fn \in EdgeFns /\ InitRest

------------------------------------------------------------------------------
\* Generation time: the compiler applies the attribute macro.

Expand ==
    /\ pc = "unexpanded"
    /\ output' = axin(tokens, input_fn)
    /\ pc' = IF output'.kind = "item" THEN "idle" ELSE "rejected"
    /\ hookCount' = [i \in 1..Len(output'.item.block) |-> 0]
    /\ UNCHANGED <<tokens, input_fn, frameVars, calls, completed,
                   producerEvals, decoratorCalls, coreEntered>>

------------------------------------------------------------------------------
\* Run time: the emitted function is called and its body runs.

Block == output.item.block
Stmt == Block[ip]
AtStmt(k) == pc = "body" /\ ip <= Len(Block) /\ Stmt.k = k

\* the position of a parameter name in the parameter list (0: no such name)
RECURSIVE IndexOf(_, _, _)
IndexOf(inputs, name, i) ==
    IF i > Len(inputs) THEN 0
    ELSE IF inputs[i].name = name THEN i
    ELSE IndexOf(inputs, name, i + 1)

\* Eval in which a parameter wins over the local of the same name
EvalParameterFirst(name) ==
    IF IndexOf(output.item.sig.inputs, name, 1) # 0
    THEN env[IndexOf(output.item.sig.inputs, name, 1)]
    ELSE FnVal

\* an identifier of the emitted body: the local `original_fn` shadows a
\* parameter of the same name
Eval(name) ==
    IF name = "original_fn" /\ original_fn.bound
    THEN FnVal
    ELSE env[IndexOf(output.item.sig.inputs, name, 1)]

EvalArgs(args) == [i \in 1..Len(args) |-> Eval(args[i])]

\* the compiler accepts the emitted function: a direct call of the closure
\* `original_fn` passes as many arguments as the closure has parameters, and
\* none of them is the closure itself, which has no parameter's type
Compiles(item) ==
    \A i \in 1..Len(item.block) :
        (item.block[i].k = "LetResult" /\ ~item.block[i].call.curried
            /\ item.block[i].call.path = "original_fn")
        => /\ \E j \in 1..(i - 1) :
                  /\ item.block[j].k = "LetOriginalFn"
                  /\ Len(item.block[j].inputs) = Len(item.block[i].call.args)
           /\ \A a \in 1..Len(item.block[i].call.args) :
                  item.block[i].call.args[a] # "original_fn"

\* the caller invokes the function with some argument values
Invoke ==
    /\ pc = "idle"
    /\ Compiles(output.item)
    /\ calls < MaxCalls
    /\ \E vals \in ArgVals(Len(output.item.sig.inputs)) :
           env' = [i \in 1..Len(vals) |-> IntVal(vals[i])]
    /\ calls' = calls + 1
    /\ pc' = "body"
    /\ ip' = 1 /\ cip' = 0
    /\ original_fn' = [bound |-> FALSE, fn |-> NoClosure]
    /\ caller' = "" /\ coreArgs' = <<>> /\ decFn' = FALSE /\ decArgs' = <<>>
    /\ coreRet' = NoValue /\ decRet' = NoValue
    /\ last' = Unit /\ result' = NoValue /\ returned' = NoValue
    /\ trace' = <<>>
    /\ applied' = 0
    /\ UNCHANGED <<genVars, wrapper, completed, hookCount, producerEvals,
                   decoratorCalls, coreEntered>>

\* a statement of the original body, run in place (the unwoven function)
ExecExpr ==
    /\ AtStmt("Expr")
    /\ trace' = Append(trace, Event("stmt", Stmt.ev, <<>>))
    /\ last' = IF IsReturn(Stmt) THEN Ret(env) ELSE StmtValue(Stmt, env)
    /\ ip' = IF IsReturn(Stmt) THEN Len(Block) + 1 ELSE ip + 1
    /\ UNCHANGED <<genVars, pc, cip, env, original_fn, caller, coreArgs, decFn, decArgs,
                   coreRet, decRet, result, returned, wrapper, applied, countVars>>

\* the end of a body without `return`: the block's value is the result
FallOff ==
    /\ pc = "body" /\ ip > Len(Block)
    /\ returned' = last
    /\ completed' = completed + 1
    /\ pc' = "idle"
    /\ UNCHANGED <<genVars, ip, cip, env, original_fn, caller, coreArgs, decFn, decArgs,
                   coreRet, decRet, last, result, trace, wrapper, applied,
                   calls, hookCount, producerEvals, decoratorCalls, coreEntered>>

\* `hook(args);`
ExecHook ==
    /\ AtStmt("Call")
    /\ trace' = Append(trace, Event("call", Stmt.call.path, Stmt.call.args))
    /\ hookCount' = [hookCount EXCEPT ![ip] = @ + 1]
    /\ last' = Unit
    /\ ip' = ip + 1
    /\ UNCHANGED <<genVars, pc, cip, env, original_fn, caller, coreArgs, decFn, decArgs,
                   coreRet, decRet, result, returned, wrapper, applied,
                   calls, completed, producerEvals, decoratorCalls, coreEntered>>

\* `let original_fn = |inputs| output { inner };`
ExecLetOriginalFn ==
    /\ AtStmt("LetOriginalFn")
    /\ original_fn' = [bound |-> TRUE, fn |-> Stmt]
    /\ last' = Unit
    /\ ip' = ip + 1
    /\ UNCHANGED <<genVars, pc, cip, env, caller, coreArgs, decFn, decArgs,
                   coreRet, decRet, result, returned, trace, wrapper, applied, countVars>>

\* the callee is entered with the evaluated arguments: the core callable
\* when the callee is the local `original_fn`, the decorator otherwise
EnterCallee(isCore, argvals) ==
    IF isCore
    THEN /\ pc' = "core"
         /\ caller' = "woven"
         /\ coreArgs' = argvals
         /\ cip' = 1
         /\ last' = Unit
         /\ coreEntered' = coreEntered + 1
         /\ UNCHANGED <<decFn, decArgs, decoratorCalls>>
    ELSE /\ pc' = "dec_before"
         /\ decFn' = (argvals # <<>> /\ argvals[1].isFn)
         /\ decArgs' = IF argvals = <<>> THEN <<>> ELSE Tail(argvals)
         /\ decoratorCalls' = decoratorCalls + 1
         /\ UNCHANGED <<caller, coreArgs, cip, last, coreEntered>>

\* `let __result = callee(args);`
ExecCall ==
    /\ AtStmt("LetResult")
    /\ ~Stmt.call.curried
    /\ EnterCallee(Stmt.call.path = "original_fn" /\ original_fn.bound, EvalArgs(Stmt.call.args))
    /\ UNCHANGED <<genVars, ip, env, original_fn, coreRet, decRet, result, returned,
                   trace, wrapper, applied, calls, completed, hookCount, producerEvals>>

\* `let __result = (producer(pargs))(args);`, first half: the producer runs
\* and yields the decorator callable
ExecProducer ==
    /\ AtStmt("LetResult")
    /\ Stmt.call.curried
    /\ trace' = Append(trace, Event("produce", Stmt.call.path, Stmt.call.pargs))
    /\ producerEvals' = producerEvals + 1
    /\ wrapper' = calls
    /\ pc' = "apply"
    /\ UNCHANGED <<genVars, ip, cip, env, original_fn, caller, coreArgs, decFn, decArgs,
                   coreRet, decRet, last, result, returned, applied,
                   calls, completed, hookCount, decoratorCalls, coreEntered>>

\* second half: the callable just obtained is called
ExecApply ==
    /\ pc = "apply"
    /\ applied' = wrapper
    /\ EnterCallee(FALSE, EvalArgs(Stmt.call.args))
    /\ UNCHANGED <<genVars, ip, env, original_fn, coreRet, decRet, result, returned,
                   trace, wrapper, calls, completed, hookCount, producerEvals>>

\* the decorator (user code): its part before the core, then it calls the
\* core with the arguments it was given, or with arguments of its own, or
\* not at all
DecBefore ==
    /\ pc = "dec_before"
    /\ trace' = Append(trace, Event("before", Stmt.call.path, <<>>))
    /\ \/ /\ decFn /\ Len(decArgs) = Len(original_fn.fn.inputs)
          /\ \A i \in 1..Len(decArgs) : ~decArgs[i].isFn
          /\ coreArgs' = decArgs
          /\ pc' = "core" /\ caller' = "decorator" /\ cip' = 1 /\ last' = Unit
          /\ coreEntered' = coreEntered + 1
       \/ /\ decFn /\ original_fn.fn.inputs # <<>>
          /\ coreArgs' = [i \in 1..Len(original_fn.fn.inputs) |-> IntVal(0)]
          /\ pc' = "core" /\ caller' = "decorator" /\ cip' = 1 /\ last' = Unit
          /\ coreEntered' = coreEntered + 1
       \/ /\ pc' = "dec_after"
          /\ UNCHANGED <<coreArgs, caller, cip, last, coreEntered>>
    /\ UNCHANGED <<genVars, ip, env, original_fn, decFn, decArgs, coreRet, decRet, result,
                   returned, wrapper, applied, calls, completed, hookCount,
                   producerEvals, decoratorCalls>>

\* one statement of the core callable: a prologue statement or a statement
\* of the original body
CoreStep ==
    /\ pc = "core" /\ cip <= Len(original_fn.fn.inner)
    /\ trace' = Append(trace, Event("stmt", original_fn.fn.inner[cip].ev, <<>>))
    /\ last' = IF IsReturn(original_fn.fn.inner[cip]) THEN Ret(coreArgs)
               ELSE StmtValue(original_fn.fn.inner[cip], coreArgs)
    /\ cip' = IF IsReturn(original_fn.fn.inner[cip]) THEN Len(original_fn.fn.inner) + 1 ELSE cip + 1
    /\ UNCHANGED <<genVars, pc, ip, env, original_fn, caller, coreArgs, decFn, decArgs,
                   coreRet, decRet, result, returned, wrapper, applied, countVars>>

\* the core callable returns its block's value to whoever called it
CoreReturn ==
    /\ pc = "core" /\ cip > Len(original_fn.fn.inner)
    /\ \/ /\ caller = "woven"
          /\ result' = last
          /\ pc' = "body" /\ ip' = ip + 1
          /\ UNCHANGED coreRet
       \/ /\ caller = "decorator"
          /\ coreRet' = last
          /\ pc' = "dec_after"
          /\ UNCHANGED <<result, ip>>
    /\ UNCHANGED <<genVars, cip, env, original_fn, caller, coreArgs, decFn, decArgs, decRet,
                   last, returned, trace, wrapper, applied, countVars>>

\* the core panics in a statement and the decorator that called it catches
\* the panic (catch_unwind) and goes on without a result of the core
DecCatch ==
    /\ pc = "core" /\ caller = "decorator"
    /\ cip <= Len(original_fn.fn.inner)
    /\ pc' = "dec_after"
    /\ UNCHANGED <<genVars, frameVars, countVars>>

\* what a decorator may return: the core's result, or a value of its own
DecoratorReturns ==
    (IF coreRet = NoValue THEN {} ELSE {coreRet})
        \cup {IF output.item.sig.output = "unit" THEN Unit ELSE DecVal}

\* the decorator's part after the core; its return value is bound to __result
DecAfter ==
    /\ pc = "dec_after"
    /\ trace' = Append(trace, Event("after", Stmt.call.path, <<>>))
    /\ \E v \in DecoratorReturns : decRet' = v /\ result' = v
    /\ pc' = "body" /\ ip' = ip + 1
    /\ UNCHANGED <<genVars, cip, env, original_fn, caller, coreArgs, decFn, decArgs, coreRet,
                   last, returned, wrapper, applied, countVars>>

\* `return __result;`
ExecReturn ==
    /\ AtStmt("Return")
    /\ returned' = result
    /\ completed' = completed + 1
    /\ pc' = "idle"
    /\ UNCHANGED <<genVars, ip, cip, env, original_fn, caller, coreArgs, decFn, decArgs,
                   coreRet, decRet, last, result, trace, wrapper, applied,
                   calls, hookCount, producerEvals, decoratorCalls, coreEntered>>

\* user code panics: a hook, the producer, the decorator or a statement of
\* the body unwinds, through the emitted function, to the caller
Unwind ==
    /\ \/ AtStmt("Call")
       \/ AtStmt("Expr")
       \/ AtStmt("LetResult") /\ Stmt.call.curried
       \/ pc \in {"dec_before", "dec_after"}
       \/ pc = "core" /\ cip <= Len(original_fn.fn.inner)
    /\ pc' = "aborted"
    /\ UNCHANGED <<genVars, frameVars, countVars>>

Next ==
    \/ Expand
    \/ Invoke
    \/ ExecExpr
    \/ FallOff
    \/ ExecHook
    \/ ExecLetOriginalFn
    \/ ExecCall
    \/ ExecProducer
    \/ ExecApply
    \/ DecBefore
    \/ CoreStep
    \/ CoreReturn
    \/ DecCatch
    \/ DecAfter
    \/ ExecReturn
    \/ Unwind

NextGen == Expand

Spec == Init /\ [][Next]_vars

SpecGen == InitGen /\ [][NextGen]_vars

SpecEdge == InitEdge /\ [][Next]_vars

------------------------------------------------------------------------------
\* What the attribute declares, read off the token stream.

\* the items of all directives called `name`, left to right
RECURSIVE DeclaredItems(_, _)
DeclaredItems(toks, name) ==
    IF toks = <<>> THEN <<>>
    ELSE DeclaredItems(SubSeq(toks, 1, Len(toks) - 1), name)
             \o (IF toks[Len(toks)].name = name THEN toks[Len(toks)].specs ELSE <<>>)

RECURSIVE DeclaredStmts(_)
DeclaredStmts(toks) ==
    IF toks = <<>> THEN <<>>
    ELSE DeclaredStmts(SubSeq(toks, 1, Len(toks) - 1))
             \o (IF toks[Len(toks)].name = PROLOGUE THEN toks[Len(toks)].stmts ELSE <<>>)

DeclaredEntry == DeclaredItems(tokens, ON_ENTER)
DeclaredExit == DeclaredItems(tokens, ON_EXIT)
DeclaredDecorator == DeclaredItems(tokens, DECORATOR)
DeclaredPrologue == DeclaredStmts(tokens)

HasDecorator == DeclaredDecorator # <<>>
Curried == HasDecorator /\ DeclaredDecorator[1].paren

HasDuplicate(s) == \E i, j \in 1..Len(s) : i < j /\ s[i] = s[j]

IsPrefix(s, t) == Len(s) <= Len(t) /\ s = SubSeq(t, 1, Len(s))

Expanded == pc \notin {"unexpanded", "rejected"}

\* the events a hook list, a statement list and the decorator stand for
HookEvents(items) == [i \in 1..Len(items) |-> Event("call", items[i].path, items[i].args)]
StmtEvents(stmts) == [i \in 1..Len(stmts) |-> Event("stmt", stmts[i].ev, <<>>)]
DecoratorEntry ==
    (IF Curried
     THEN <<Event("produce", DeclaredDecorator[1].path, DeclaredDecorator[1].args)>>
     ELSE <<>>) \o <<Event("before", DeclaredDecorator[1].path, <<>>)>>
DecoratorExit == <<Event("after", DeclaredDecorator[1].path, <<>>)>>

FullTrace ==
    HookEvents(DeclaredEntry) \o DecoratorEntry \o StmtEvents(DeclaredPrologue)
        \o StmtEvents(input_fn.block) \o DecoratorExit \o HookEvents(DeclaredExit)

\* this invocation's decorator is running, or the core on its behalf
InDecorator == pc \in {"dec_before", "dec_after"} \/ (pc = "core" /\ caller = "decorator")

\* this invocation's core callable has been entered
CoreRan == cip > 0

\* this invocation's decorator went on without the core having returned: it
\* did not call the core, or caught a panic of the core
IsAfter(e) == e.op = "after"
CoreCutShort ==
    /\ original_fn.bound /\ cip <= Len(original_fn.fn.inner)
    /\ pc = "dec_after" \/ SelectSeq(trace, IsAfter) # <<>>

IsCallEvent(e) == e.op = "call"

------------------------------------------------------------------------------
ExpectedCalls(items) == [i \in 1..Len(items) |-> CallStmt(Call(items[i].path, items[i].args))]

C2_HookOrder ==
    (output.kind = "item" /\ tokens # <<>>)
    => LET b == output.item.block
           ne == Len(DeclaredEntry)
           nx == Len(DeclaredExit)
       IN /\ Len(b) = ne + nx + 3
          /\ SubSeq(b, 1, ne) = ExpectedCalls(DeclaredEntry)
          /\ b[ne + 1].k = "LetOriginalFn"
          /\ b[ne + 2].k = "LetResult"
          /\ SubSeq(b, ne + 3, ne + nx + 2) = ExpectedCalls(DeclaredExit)
          /\ b[ne + nx + 3].k = "Return"

C2_Witness ==
    /\ output.kind = "item"
    /\ \E i, j, k \in 1..Len(tokens) :
           /\ i < j /\ j < k
           /\ tokens[i].name = ON_ENTER /\ tokens[j].name # ON_ENTER /\ tokens[k].name = ON_ENTER
    /\ HasDuplicate(DeclaredEntry)

\* C3 as claimed: whenever the directive set is empty, the output is the
\* original function.
DirectiveSetEmpty ==
    /\ DeclaredEntry = <<>> /\ DeclaredExit = <<>>
    /\ ~HasDecorator /\ DeclaredPrologue = <<>>

C3_IdentityOnEmptyDirectiveSet ==
    (output.kind = "item" /\ DirectiveSetEmpty) => output.item = input_fn

\* C3 as amended: the output is the original function exactly when the token
\* stream is empty; a non-empty stream that parses is woven by the general
\* algorithm (core callable, result binding, explicit return), also when the
\* directive set it yields is empty.
Woven(item) ==
    /\ \E i \in 1..Len(item.block) : item.block[i].k = "LetOriginalFn"
    /\ \E i \in 1..Len(item.block) : item.block[i].k = "LetResult"
    /\ item.block[Len(item.block)].k = "Return"

C3_IdentityOnEmptyTokens ==
    pc # "unexpanded"
    => /\ tokens = <<>> => output = Item(input_fn)
       /\ (tokens # <<>> /\ output.kind = "item") => (Woven(output.item) /\ output.item # input_fn)

C3_Witness ==
    /\ pc # "unexpanded" /\ tokens = <<>> /\ output = Item(input_fn)

\* C4: with a decorator, every invocation that gets to the call invokes the
\* decorator once, with the core callable as first argument, and a returned
\* invocation has returned the decorator's return value.
C4_DecoratorOnce ==
    (Expanded /\ HasDecorator)
    => /\ decoratorCalls \in {completed, completed + 1}
       /\ pc = "idle" => decoratorCalls = completed
       /\ InDecorator => (decFn /\ decoratorCalls = completed + 1)
       /\ (pc = "idle" /\ completed > 0) => (decRet # NoValue /\ returned = decRet)

C4_Witness ==
    /\ HasDecorator /\ pc = "idle" /\ completed > 0
    /\ DeclaredExit # <<>>
    /\ coreRet # NoValue /\ decRet # coreRet
    /\ returned = decRet

\* C5: with a parameterized decorator, the producer has been evaluated once
\* per invocation that got to the call, and the decorator call of an
\* invocation uses the callable made in that invocation.
C5_ProducerPerCall ==
    (Expanded /\ Curried)
    => /\ producerEvals \in {completed, completed + 1}
       /\ pc = "idle" => producerEvals = completed
       /\ (pc = "apply" \/ InDecorator) => (producerEvals = completed + 1 /\ wrapper = calls)
       /\ InDecorator => applied = calls

C5_Witness ==
    /\ Curried /\ pc = "idle" /\ completed = 2 /\ producerEvals = 2

\* C6: with identifier parameters only, the core (no decorator) or the
\* decorator (after the core callable) gets the caller's values in
\* declaration order, and when the decorator passes them on and returns the
\* core's result, the result is that of the original function.
AllIdent == \A i \in 1..Len(input_fn.sig.inputs) : input_fn.sig.inputs[i].pat = "Ident"

UnwovenResult == StmtValue(input_fn.block[Len(input_fn.block)], env)

PassedOn == CoreRan /\ coreArgs = decArgs /\ decRet = coreRet

AbortedInCall == pc = "aborted" /\ ip <= Len(Block) /\ Stmt.k = "LetResult"

C7_AbortSkipsExitHooks ==
    AbortedInCall
    => /\ \A j \in (ip + 1)..Len(Block) : Block[j].k = "Call" => hookCount[j] = completed
       /\ Len(SelectSeq(trace, IsCallEvent)) = Len(DeclaredEntry)
       /\ result = NoValue /\ returned = NoValue
       /\ completed = calls - 1

C7_Witness ==
    /\ AbortedInCall /\ DeclaredExit # <<>>
    /\ caller = "decorator" /\ coreRet # NoValue

\* C8: between invocations, every hook call of the emitted body, one per
\* occurrence in the declared lists, has run once per completed invocation,
\* and the core has been entered once per invocation without a decorator,
\* at most once per invocation with one.
C8_NoCarriedState ==
    (pc = "idle" /\ tokens # <<>>)
    => /\ Cardinality({i \in 1..Len(Block) : Block[i].k = "Call"})
              = Len(DeclaredEntry) + Len(DeclaredExit)
       /\ \A i \in 1..Len(Block) : Block[i].k = "Call" => hookCount[i] = completed
       /\ ~HasDecorator => coreEntered = completed
       /\ HasDecorator => (decoratorCalls = completed /\ coreEntered <= decoratorCalls)

C8_Witness ==
    /\ pc = "idle" /\ completed = 2
    /\ HasDuplicate(DeclaredEntry) /\ DeclaredExit # <<>>
    /\ HasDecorator /\ coreEntered = 1

\* C9: a directive list with a grammar violation yields the compile error and
\* no function item; the error is that of the first directive the parser
\* fails at, or the unexpected-token error when the only violation is tokens
\* left over in a decorator body.
KnownName(tok) == tok.name \in {PROLOGUE, ON_ENTER, ON_EXIT, DECORATOR}

\* a directive at which the parser stops
Fails(tok) ==
    \/ ~KnownName(tok)
    \/ tok.name \in {ON_ENTER, ON_EXIT} /\ (tok.specs = <<>> \/ \E i \in 1..Len(tok.specs) : ~tok.specs[i].isPath)
    \/ tok.name = DECORATOR /\ (tok.specs = <<>> \/ ~tok.specs[1].isPath)
    \/ tok.name = PROLOGUE /\ \E i \in 1..(Len(tok.stmts) - 1) : ~tok.stmts[i].semi /\ ~tok.stmts[i].mac

\* a decorator body with tokens after its function-spec
Leftover(tok) == tok.name = DECORATOR /\ Len(tok.specs) > 1

Violation(tok) == Fails(tok) \/ Leftover(tok)

FirstFailure == CHOOSE i \in 1..Len(tokens) : Fails(tokens[i]) /\ \A j \in 1..(i - 1) : ~Fails(tokens[j])

C9_ErrorOnly ==
    (pc # "unexpanded" /\ \E i \in 1..Len(tokens) : Violation(tokens[i]))
    => /\ output.kind = "compile_error"
       /\ output.item = NoItem
       /\ IF \E i \in 1..Len(tokens) : Fails(tokens[i])
          THEN output.err.name = tokens[FirstFailure].name /\ output.err.kind # "UnexpectedToken"
          ELSE output.err = UnexpectedToken

C9_Witness ==
    /\ pc = "rejected" /\ output.kind = "compile_error" /\ output.item = NoItem
    /\ Len(tokens) = 3
    /\ ~Violation(tokens[1]) /\ Violation(tokens[2]) /\ ~Violation(tokens[3])

\* C10: an on_enter or on_exit directive with an empty list, reached by the
\* parser after valid directives only, yields the empty-hook-list error that
\* names it.
EmptyHook(tok) == tok.name \in {ON_ENTER, ON_EXIT} /\ tok.specs = <<>>

C10_EmptyHookListRejected ==
    pc # "unexpanded"
    => \A i \in 1..Len(tokens) :
           (EmptyHook(tokens[i]) /\ \A j \in 1..(i - 1) : ~Violation(tokens[j]))
           => output = CompileError(EmptyHookList(tokens[i].name))

C10_Witness ==
    /\ pc = "rejected" /\ Len(tokens) = 3
    /\ ~Violation(tokens[1]) /\ ~Violation(tokens[2]) /\ EmptyHook(tokens[3])
    /\ tokens[3].name = ON_EXIT
    /\ output = CompileError(EmptyHookList(ON_EXIT))

\* C11: a directive with a name other than prologue, on_enter, on_exit,
\* decorator, reached by the parser, yields the unknown-directive error with
\* that name and the list <prologue, on_enter, on_exit, decorator>; the
\* unknown-directive error is never given for one of the four names, and a
\* list of well-formed directives with these names is accepted.
FourNames == {"prologue", "on_enter", "on_exit", "decorator"}

C11_UnknownDirective ==
    pc # "unexpanded"
    => /\ \A i \in 1..Len(tokens) :
              (tokens[i].name \notin FourNames /\ \A j \in 1..(i - 1) : ~Fails(tokens[j]))
              => output = CompileError([kind |-> "UnknownDirective",
                                        name |-> tokens[i].name,
                                        supported |-> <<"prologue", "on_enter", "on_exit", "decorator">>])
       /\ (output.kind = "compile_error" /\ output.err.kind = "UnknownDirective")
              => output.err.name \notin FourNames
       /\ (tokens # <<>> /\ \A i \in 1..Len(tokens) :
                                 tokens[i].name \in FourNames /\ ~Violation(tokens[i]))
              => output.kind = "item"

C11_Witness ==
    /\ pc = "rejected" /\ Len(tokens) = 3
    /\ tokens[1].name = DECORATOR /\ ~Violation(tokens[1])
    /\ tokens[2].name = PROLOGUE /\ ~Violation(tokens[2])
    /\ tokens[3].name = "on_entry"
    /\ output.err.kind = "UnknownDirective" /\ output.err.name = "on_entry"
    /\ Len(output.err.supported) = 4

\* C12: a directive list with a decorator directive whose body is empty, or
\* has anything after its first function-spec, yields a compile error and no
\* function item; when it is the first directive the parser fails at, an
\* empty body gives the function-spec error naming decorator, and when
\* nothing else fails, tokens after the first spec give the unexpected-token
\* error.
C12_DecoratorExactlyOne ==
    pc # "unexpanded"
    => \A i \in 1..Len(tokens) :
           (tokens[i].name = DECORATOR /\ Len(tokens[i].specs) # 1)
           => /\ output.kind = "compile_error"
              /\ output.item = NoItem
              /\ (tokens[i].specs = <<>> /\ \A j \in 1..(i - 1) : ~Fails(tokens[j]))
                     => output.err = MalformedFunctionSpec(DECORATOR)
              /\ (\A j \in 1..Len(tokens) : ~Fails(tokens[j]))
                     => output.err = UnexpectedToken

C12_Witness ==
    /\ pc = "rejected" /\ Len(tokens) = 3
    /\ tokens[1].name = DECORATOR /\ Len(tokens[1].specs) = 2 /\ tokens[1].specs[1].isPath
    /\ ~Violation(tokens[2]) /\ ~Violation(tokens[3])
    /\ output = CompileError(UnexpectedToken)

\* C13: a directive list with two decorator directives yields an error and
\* no function item.
DecoratorDirectives == {i \in 1..Len(tokens) : tokens[i].name = DECORATOR}

C13_SecondDecoratorIsError ==
    (pc # "unexpanded" /\ Cardinality(DecoratorDirectives) >= 2)
    => output.kind = "compile_error"

\* C13, what the code does instead: a second decorator directive is no
\* error.  A list of well-formed directives is accepted however many
\* decorator directives it has, and the emitted body has one result binding,
\* which calls the decorator of the last decorator directive; the earlier
\* ones are dropped without a diagnostic.
LastDecorator ==
    tokens[CHOOSE i \in DecoratorDirectives : \A j \in DecoratorDirectives : j <= i].specs[1]

IdentNames(inputs) ==
    LET IsIdent(p) == p.pat = "Ident"
        idents == SelectSeq(inputs, IsIdent)
    IN [i \in 1..Len(idents) |-> idents[i].name]

ResultBindings == {i \in 1..Len(output.item.block) : output.item.block[i].k = "LetResult"}

C13_LastDecoratorWins ==
    (pc # "unexpanded" /\ DecoratorDirectives # {})
    => /\ (\A i \in 1..Len(tokens) : ~Violation(tokens[i])) => output.kind = "item"
       /\ output.kind = "item"
              => /\ Cardinality(ResultBindings) = 1
                 /\ \A i \in ResultBindings :
                        LET c == output.item.block[i].call
                        IN /\ c.path = LastDecorator.path
                           /\ c.curried = LastDecorator.paren
                           /\ c.pargs = LastDecorator.args
                           /\ c.args = <<"original_fn">> \o IdentNames(input_fn.sig.inputs)

C13_Witness ==
    /\ output.kind = "item" /\ Len(tokens) = 3
    /\ tokens[1].name = DECORATOR /\ tokens[1].specs[1].paren
    /\ tokens[2].name = ON_EXIT
    /\ tokens[3].name = DECORATOR /\ ~tokens[3].specs[1].paren
    /\ \A i \in ResultBindings : ~output.item.block[i].call.curried

\* C14 as claimed: with two prologue directives, the core callable holds the
\* statements of the last prologue directive only, then the original body.
PrologueDirectives == {i \in 1..Len(tokens) : tokens[i].name = PROLOGUE}

LastPrologue ==
    tokens[CHOOSE i \in PrologueDirectives : \A j \in PrologueDirectives : j <= i].stmts

\* the expressions of a statement list, whatever their terminators
Evs(stmts) == [i \in 1..Len(stmts) |-> stmts[i].ev]

\* the statements of the core callable of the emitted body
CoreInner ==
    output.item.block[CHOOSE i \in 1..Len(output.item.block) :
                          output.item.block[i].k = "LetOriginalFn"].inner

Forwarded(c) == IF DecoratorDirectives # {} THEN Tail(c.args) ELSE c.args

C15_ForwardsIdentifiersOnly ==
    (pc # "unexpanded" /\ tokens # <<>> /\ \A i \in 1..Len(tokens) : ~Violation(tokens[i]))
    => /\ output.kind = "item"
       /\ \A i \in ResultBindings :
              /\ Forwarded(output.item.block[i].call) = IdentNames(input_fn.sig.inputs)
              /\ input_fn = F4 => Forwarded(output.item.block[i].call) = <<"n", "m">>
              /\ input_fn = F5 => Forwarded(output.item.block[i].call) = <<"n">>

C15_Witness ==
    /\ output.kind = "item" /\ input_fn = F4 /\ DecoratorDirectives # {}
    /\ \E i \in ResultBindings : output.item.block[i].call.args = <<"original_fn", "n", "m">>

\* C16: in the core callable every prologue statement has a terminator, the
\* prologue statements are those of the prologue bodies in their order, a
\* statement that had a terminator is unchanged, and a core callable whose
\* original body is empty does not end in a prologue statement without a
\* terminator, which would be its tail expression.
ProloguePart == SubSeq(CoreInner, 1, Len(CoreInner) - Len(input_fn.block))

C16_PrologueTerminated ==
    (output.kind = "item" /\ tokens # <<>>)
    => /\ Len(ProloguePart) = Len(DeclaredPrologue)
       /\ Evs(ProloguePart) = Evs(DeclaredPrologue)
       /\ \A i \in 1..Len(ProloguePart) :
              /\ ProloguePart[i].semi
              /\ DeclaredPrologue[i].semi
                     => ProloguePart[i] = (IF DeclaredPrologue[i].mac
                                           THEN MacroStmt(DeclaredPrologue[i].ev, TRUE)
                                           ELSE ExprStmt(DeclaredPrologue[i].ev, TRUE))
       /\ (input_fn.block = <<>> /\ CoreInner # <<>>) => CoreInner[Len(CoreInner)].semi

\* C16, what the code does: every expression statement (Stmt::Expr) of a
\* prologue body has a terminator in the core callable, the order is kept
\* and every other statement is passed on as it is; a macro invocation with
\* braces and no terminator (Stmt::Macro) stays without one.
C16_ExprTerminated ==
    (output.kind = "item" /\ tokens # <<>>)
    => /\ Len(ProloguePart) = Len(DeclaredPrologue)
       /\ \A i \in 1..Len(ProloguePart) :
              ProloguePart[i] = (IF DeclaredPrologue[i].mac
                                 THEN MacroStmt(DeclaredPrologue[i].ev, DeclaredPrologue[i].semi)
                                 ELSE ExprStmt(DeclaredPrologue[i].ev, TRUE))

C16_Witness ==
    /\ output.kind = "item" /\ input_fn = F6
    /\ Len(DeclaredPrologue) = 2
    /\ DeclaredPrologue[1].semi /\ ~DeclaredPrologue[2].semi /\ ~DeclaredPrologue[2].mac
    /\ CoreInner = <<ExprStmt("Q", TRUE), ExprStmt("P", TRUE)>>

\* C17: without a decorator, the result binding calls the core callable with
\* as many arguments as the core callable has parameters, for every
\* parameter list.
CoreInputs ==
    output.item.block[CHOOSE i \in 1..Len(output.item.block) :
                          output.item.block[i].k = "LetOriginalFn"].inputs

C17_DirectCallArity ==
    (output.kind = "item" /\ tokens # <<>> /\ DecoratorDirectives = {})
    => \A i \in ResultBindings : Len(output.item.block[i].call.args) = Len(CoreInputs)

\* C17, what the code does: the core callable has all the parameters of the
\* original function and the direct call passes one argument per parameter
\* bound by a plain identifier, so the numbers agree exactly when every
\* parameter is bound by a plain identifier.
C17_ArityAgreesIffAllIdent ==
    (output.kind = "item" /\ tokens # <<>> /\ DecoratorDirectives = {})
    => /\ CoreInputs = input_fn.sig.inputs
       /\ \A i \in ResultBindings :
              /\ output.item.block[i].call.path = "original_fn"
              /\ Len(output.item.block[i].call.args) = Len(CoreInputs) <=> AllIdent

C17_Witness ==
    /\ output.kind = "item" /\ tokens # <<>> /\ DecoratorDirectives = {}
    /\ input_fn = F4
    /\ Len(CoreInputs) = 4
    /\ \E i \in ResultBindings : Len(output.item.block[i].call.args) = 2

\* C19: the emitted function has the attributes, the visibility and the
\* signature (qualifiers, name, generics, parameters, return type) of the
\* original function, on the general path as on the identity path.
C19_OnlyBodyChanges ==
    output.kind = "item"
    => /\ output.item.attrs = input_fn.attrs
       /\ output.item.vis = input_fn.vis
       /\ output.item.sig = input_fn.sig

\* C19, what the code does: the visibility and the signature are those of
\* the original function on both paths; the original function's other
\* attributes are kept on the identity path and dropped on the general path.
C19_SignatureKeptAttributesDropped ==
    output.kind = "item"
    => /\ output.item.vis = input_fn.vis
       /\ output.item.sig = input_fn.sig
       /\ tokens = <<>> => output.item.attrs = input_fn.attrs
       /\ tokens # <<>> => output.item.attrs = <<>>

C19_Witness ==
    /\ output.kind = "item" /\ tokens # <<>>
    /\ input_fn.attrs = <<"inline">> /\ input_fn.vis = "pub"
    /\ output.item.vis = "pub" /\ output.item.sig = input_fn.sig
    /\ output.item.attrs = <<>>

\* C18: whatever the parameters are named, every argument forwarded to the
\* decorator (after the core callable) or to the core is the value the
\* caller passed for that parameter.
C18_ForwardedValuesAreCallers ==
    (Expanded /\ calls > 0 /\ tokens # <<>> /\ AllIdent)
    => /\ (HasDecorator /\ decoratorCalls > completed)
              => /\ Len(decArgs) = Len(env)
                 /\ \A i \in 1..Len(decArgs) : ~decArgs[i].isFn /\ decArgs[i] = env[i]
       /\ (~HasDecorator /\ CoreRan)
              => \A i \in 1..Len(coreArgs) : ~coreArgs[i].isFn /\ coreArgs[i] = env[i]

\* C18, what the code does: the local `original_fn` is bound before the
\* call, so an argument forwarded for a parameter named original_fn is the
\* core callable and not the caller's value; every other forwarded argument
\* is the caller's value.
C18_LocalShadowsParameter ==
    (Expanded /\ calls > 0 /\ HasDecorator /\ decoratorCalls > completed /\ AllIdent)
    => /\ Len(decArgs) = Len(env)
       /\ \A i \in 1..Len(decArgs) :
              decArgs[i] = (IF input_fn.sig.inputs[i].name = "original_fn" THEN FnVal ELSE env[i])

C18_Witness ==
    /\ input_fn = F7 /\ HasDecorator /\ DeclaredExit # <<>>
    /\ pc = "idle" /\ completed > 0
    /\ decFn /\ decArgs = <<FnVal>> /\ env = <<IntVal(1)>>
    /\ CoreRan

\* C20: when a statement of the prologue or of the original body is a
\* `return`, an invocation in which the core returns runs the statements up
\* to that `return` and none after it, then the rest of the decorator, then
\* every exit hook in order, and returns the value of the `return` (through
\* the decorator, when it hands the core's result on).
RECURSIVE UpToReturn(_)
UpToReturn(evs) ==
    IF evs = <<>> THEN <<>>
    ELSE IF Head(evs) = "return" THEN <<"return">>
    ELSE <<Head(evs)>> \o UpToReturn(Tail(evs))

CoreEvs == Evs(DeclaredPrologue) \o Evs(input_fn.block)

HasEarlyReturn == \E i \in 1..Len(CoreEvs) : CoreEvs[i] = "return"

ExecutedEvents == [i \in 1..Len(UpToReturn(CoreEvs)) |-> Event("stmt", UpToReturn(CoreEvs)[i], <<>>)]

C20_EarlyReturnEndsCoreOnly ==
    (Expanded /\ tokens # <<>> /\ HasEarlyReturn /\ pc = "idle" /\ completed > 0 /\ ~CoreCutShort)
    => /\ trace = HookEvents(DeclaredEntry)
                     \o (IF HasDecorator THEN DecoratorEntry ELSE <<>>)
                     \o ExecutedEvents
                     \o (IF HasDecorator THEN DecoratorExit ELSE <<>>)
                     \o HookEvents(DeclaredExit)
       /\ \A i \in 1..Len(Block) : Block[i].k = "Call" => hookCount[i] = completed
       /\ ~HasDecorator => returned = Ret(env)
       /\ HasDecorator => (coreRet = Ret(coreArgs) /\ (decRet = coreRet => returned = coreRet))

C20_Witness ==
    /\ pc = "idle" /\ completed > 0 /\ input_fn = F8
    /\ HasDecorator /\ Len(DeclaredExit) = 2 /\ DeclaredPrologue # <<>>
    /\ coreArgs = env /\ decRet = coreRet /\ returned = Ret(env)
    /\ \A i \in 1..Len(trace) : trace[i].path # "Y"
    /\ trace[Len(trace)] = Event("call", "B", <<>>)

====
